---- MODULE Spec2Model ----
(***************************************************************************)
(* Figma2Code, figma_to_angular/alt_nodes.py: the tree builder             *)
(* (convert_to_angular_nodes) and the layout classifier (analyze_layout).  *)
(*                                                                         *)
(* A raw record is a TLA+ record whose has_* fields say which keys the     *)
(* Python dict carries.  A node object is identified by the index of the   *)
(* record it was constructed from, so two records with the same id give    *)
(* two distinct objects, as in Python.                                     *)
(***************************************************************************)
EXTENDS Integers, Sequences, FiniteSets, TLC

VARIABLES document, figma_nodes, nodes, node_map, root_nodes, pc

vars == <<document, figma_nodes, nodes, node_map, root_nodes, pc>>

-----------------------------------------------------------------------------
(* Bounds of the model *)

MaxChildren == 4

MaxRecords == 3

RecursionLimit == 3

MaxWords == 2

MaxChars == 3

-----------------------------------------------------------------------------
(* Small arithmetic helpers *)

Abs(n) == IF n < 0 THEN -n ELSE n

RECURSIVE Gcd(_, _)
Gcd(a, b) == IF b = 0 THEN a ELSE Gcd(b, a % b)

\* The quotient num/den of a Python true division, kept exact as a reduced
\* fraction <<n, d>> with d > 0.
Frac(num, den) ==
    LET g == Gcd(Abs(num), den)
    IN  IF g = 0 THEN <<0, 1>> ELSE <<num \div g, den \div g>>

RECURSIVE SumSeq(_)
SumSeq(s) == IF s = <<>> THEN 0 ELSE Head(s) + SumSeq(Tail(s))

SetMax(S) == CHOOSE m \in S : \A n \in S : n <= m

SetMin(S) == CHOOSE m \in S : \A n \in S : m <= n

Range(s) == {s[i] : i \in DOMAIN s}

-----------------------------------------------------------------------------
(* Raw records *)

\* size = {"width": "auto", "height": "auto"}: a size that is not a number
Auto == -1

\* A value that is not a mapping (isinstance(node, dict) is false)
NotADict ==
    [dict |-> FALSE, has_id |-> FALSE, id |-> 0, has_parent |-> FALSE, parent_id |-> 0,
     type |-> "", has_bbox |-> FALSE, x |-> 0, y |-> 0, width |-> 0, height |-> 0,
     horizontal |-> "", vertical |-> "", layoutMode |-> "", itemSpacing |-> 0,
     fills_typed |-> TRUE, name |-> <<>>, has_style |-> FALSE, fontSize |-> 0,
     fontWeight |-> 0]

\* A mapping with every optional key absent
BareDict == [NotADict EXCEPT !.dict = TRUE]

WithId(r, id) == [r EXCEPT !.has_id = TRUE, !.id = id]

WithParent(r, pid) == [r EXCEPT !.has_parent = TRUE, !.parent_id = pid]

WithBBox(r, x, y, w, h) ==
    [r EXCEPT !.has_bbox = TRUE, !.x = x, !.y = y, !.width = w, !.height = h]

WithName(r, name) == [r EXCEPT !.name = name]

\* "style": {"fontSize": size, "fontWeight": weight}
WithStyle(r, size, weight) ==
    [r EXCEPT !.has_style = TRUE, !.fontSize = size, !.fontWeight = weight]

-----------------------------------------------------------------------------
(* Names.  A name is a sequence of tokens: a token is a word of letters or   *)
(* one character of another class.  No keyword of the role rules arises      *)
(* across the boundary of two tokens of this vocabulary.                     *)

\* the keywords of _detect_component_type, in the order of its tests
Keywords ==
    <<{"button"}, {"card"}, {"input", "textfield"}, {"select", "dropdown"},
      {"checkbox"}, {"radio"}, {"tab"}, {"dialog", "modal"}, {"menu"}, {"toolbar"},
      {"icon"}, {"chip", "tag"}, {"progress"}>>

LowerWords ==
    UNION Range(Keywords) \cup {"btn", "circular", "spinner", "submit", "x", "el", "element"}

\* str.lower() on a token
Lower(t) ==
    CASE t = "Button" -> "button"
      [] t = "Card"   -> "card"
      [] t = "X"      -> "x"
      [] OTHER        -> t

UpperWords == {"Button", "Card", "X"}

\* [a-zA-Z0-9_\-\s]: letters, the digit, underscore, hyphen and the blank;
\* "!" and e_acute, a letter outside ASCII, are removed
Kept(t) == t \in LowerWords \cup UpperWords \cup {"7", "_", "-", " "}

\* re.sub(r'\s+', '-', clean): every run of blanks becomes one hyphen
RECURSIVE Hyphenate(_)
Hyphenate(name) ==
    IF name = <<>> THEN <<>>
    ELSE IF Head(name) # " " THEN <<Head(name)>> \o Hyphenate(Tail(name))
    ELSE IF Len(name) > 1 /\ name[2] = " " THEN Hyphenate(Tail(name))
    ELSE <<"-">> \o Hyphenate(Tail(name))

\* str.isalpha() on the first character
IsAlpha(t) == t \in LowerWords \cup UpperWords \cup {"e_acute"}

\* a variant that prefixes every name
CleanNameAlwaysPrefixes(name) ==
    IF name = <<>> THEN <<"element">>
    ELSE LET clean == [i \in DOMAIN Hyphenate(SelectSeq(name, Kept)) |->
                          Lower(Hyphenate(SelectSeq(name, Kept))[i])]
         IN  IF clean = <<>> THEN <<"element">> ELSE <<"el", "-">> \o clean

_clean_name(name) ==
    IF name = <<>> THEN <<"element">>
    ELSE LET hyphenated == Hyphenate(SelectSeq(name, Kept))
             clean == [i \in DOMAIN hyphenated |-> Lower(hyphenated[i])]
             prefixed == IF clean # <<>> /\ ~IsAlpha(clean[1])
                         THEN <<"el", "-">> \o clean ELSE clean
         IN  IF prefixed = <<>> THEN <<"element">> ELSE prefixed

-----------------------------------------------------------------------------
(* Component roles *)

H1Size == 24

H2Size == 20

H3Size == 16

StrongWeight == 500

\* keyword in name, for name already lowered
Contains(name, keyword) == \E i \in DOMAIN name : name[i] = keyword

EndsWith(name, suffix) == name # <<>> /\ name[Len(name)] = suffix

\* whether the k-th name test of _detect_component_type is satisfied
RuleMatches(k, name, rec) ==
    /\ \/ \E w \in Keywords[k] : Contains(name, w)
       \/ k = 1 /\ EndsWith(name, "btn")
    /\ "tab" \in Keywords[k] => rec.type = "FRAME"

Roles ==
    <<"mat-button", "mat-card", "mat-form-field", "mat-select", "mat-checkbox",
      "mat-radio", "mat-tab-group", "mat-dialog", "mat-menu", "mat-toolbar",
      "mat-icon", "mat-chip", "mat-progress">>

\* the role of rule k; the progress rule tells the spinner from the bar
RoleOf(k, name) ==
    IF Roles[k] # "mat-progress" THEN Roles[k]
    ELSE IF Contains(name, "circular") \/ Contains(name, "spinner")
         THEN "mat-progress-spinner" ELSE "mat-progress-bar"

\* node.get("type", "div").lower()
LowerType(type) ==
    CASE type = "FRAME"     -> "frame"
      [] type = "TEXT"      -> "text"
      [] type = "RECTANGLE" -> "rectangle"
      [] type = "CANVAS"    -> "canvas"
      [] type = ""          -> "div"
      [] OTHER              -> type

FontRole(rec) ==
    IF rec.type = "TEXT" /\ rec.has_style
    THEN IF rec.fontSize > H1Size THEN "h1"
         ELSE IF rec.fontSize > H2Size THEN "h2"
         ELSE IF rec.fontSize > H3Size THEN "h3"
         ELSE IF rec.fontWeight > StrongWeight THEN "strong"
         ELSE LowerType(rec.type)
    ELSE LowerType(rec.type)

\* a variant that reads the font metrics before the name
DetectFontFirst(rec) ==
    LET name == [i \in DOMAIN rec.name |-> Lower(rec.name[i])]
        matching == {k \in DOMAIN Keywords : RuleMatches(k, name, rec)}
    IN  IF FontRole(rec) # LowerType(rec.type) THEN FontRole(rec)
        ELSE IF matching # {} THEN RoleOf(SetMin(matching), name)
        ELSE FontRole(rec)

_detect_component_type(rec) ==
    LET name == [i \in DOMAIN rec.name |-> Lower(rec.name[i])]
        matching == {k \in DOMAIN Keywords : RuleMatches(k, name, rec)}
    IN  IF matching # {} THEN RoleOf(SetMin(matching), name) ELSE FontRole(rec)

-----------------------------------------------------------------------------
(* AngularNode construction *)

NoGap == <<0, 0>>

EmptyFlex == [display |-> "", flex_direction |-> "", gap |-> NoGap, align_items |-> ""]

EmptyGrid == [display |-> "", cols |-> 0, rows |-> 0, column_gap |-> NoGap, row_gap |-> NoGap]

\* _extract_style indexes fill["type"]: a visible fill without that key raises
ConstructionRaises(rec) == ~rec.fills_typed

_extract_position(rec) ==
    [x |-> IF rec.has_bbox THEN rec.x ELSE 0,
     y |-> IF rec.has_bbox THEN rec.y ELSE 0,
     position |-> IF rec.horizontal = "LEFT_RIGHT" \/ rec.vertical = "TOP_BOTTOM"
                  THEN "absolute" ELSE "relative"]

_extract_size(rec) ==
    [width  |-> IF rec.has_bbox THEN rec.width ELSE Auto,
     height |-> IF rec.has_bbox THEN rec.height ELSE Auto]

LowerMode(m) ==
    CASE m = "HORIZONTAL" -> "horizontal"
      [] m = "VERTICAL"   -> "vertical"
      [] m = "NONE"       -> "none"
      [] OTHER            -> m

_extract_layout(rec) ==
    IF rec.layoutMode # ""
    THEN [type |-> "auto-layout", direction |-> LowerMode(rec.layoutMode),
          spacing |-> <<rec.itemSpacing, 1>>]
    ELSE [type |-> "default", direction |-> "None", spacing |-> <<0, 1>>]

ContainerTypes == {"FRAME", "GROUP", "COMPONENT", "INSTANCE"}

\* flattened records carry no "children" key, so only the kind decides
_determine_if_container(rec) == rec.type \in ContainerTypes

AngularNode(rec) ==
    [id |-> rec.id,
     name |-> _clean_name(rec.name),
     type |-> rec.type,
     component_type |-> _detect_component_type(rec),
     parent |-> 0,
     children |-> <<>>,
     position |-> _extract_position(rec),
     size |-> _extract_size(rec),
     layout |-> _extract_layout(rec),
     is_container |-> _determine_if_container(rec),
     flex_props |-> EmptyFlex,
     grid_props |-> EmptyGrid,
     warnings |-> <<>>]

add_child(ns, p, c) ==
    LET withChild == [ns EXCEPT ![p].children = Append(@, c)]
    IN  [withChild EXCEPT ![c].parent = p]

-----------------------------------------------------------------------------
(* convert_to_angular_nodes *)

IsValid(rec) == rec.dict /\ rec.has_id

\* node_map is a Python dict: keys in first-insertion order, current values
EmptyBuild == [nodes |-> <<>>, keys |-> <<>>, map |-> <<>>, roots |-> <<>>]

Extend(f, k, v) == [x \in (DOMAIN f) \cup {k} |-> IF x = k THEN v ELSE f[x]]

RECURSIVE FirstPass(_, _, _)
FirstPass(recs, i, b) ==
    IF i > Len(recs) THEN b
    ELSE LET rec == recs[i]
         IN  IF ~IsValid(rec) \/ ConstructionRaises(rec)
             THEN FirstPass(recs, i + 1, b)
             ELSE FirstPass(recs, i + 1,
                    [nodes |-> Extend(b.nodes, i, AngularNode(rec)),
                     keys  |-> IF rec.id \in DOMAIN b.map THEN b.keys
                               ELSE Append(b.keys, rec.id),
                     map   |-> Extend(b.map, rec.id, i),
                     roots |-> IF rec.has_parent THEN b.roots
                               ELSE Append(b.roots, i)])

RECURSIVE SecondPass(_, _, _)
SecondPass(recs, i, b) ==
    IF i > Len(recs) THEN b
    ELSE LET rec == recs[i]
         IN  IF IsValid(rec) /\ rec.has_parent /\ rec.parent_id \in DOMAIN b.map
                /\ rec.id \in DOMAIN b.map
             THEN SecondPass(recs, i + 1,
                    [b EXCEPT !.nodes = add_child(b.nodes, b.map[rec.parent_id],
                                                  b.map[rec.id])])
             ELSE SecondPass(recs, i + 1, b)

\* a variant that returns the root list of the first pass as it is
RootFallbackSkipped(b) == b

RootFallback(b) ==
    IF b.roots = <<>> /\ b.keys # <<>>
    THEN [b EXCEPT !.roots = <<b.map[b.keys[1]]>>]
    ELSE b

convert_to_angular_nodes(recs) ==
    IF recs = <<>> THEN EmptyBuild
    ELSE RootFallback(SecondPass(recs, 1, FirstPass(recs, 1, EmptyBuild)))

-----------------------------------------------------------------------------
(* Layout classifier: the predicates and metrics over a children list.     *)
(* `children` is the sequence of child node objects in list order.         *)

MaxDeviation == 5

MinSpread == 20

EdgeTolerance == 5

CenterTolerance == 10

GridBucket == 10

MinGridChildren == 4

Xs(children) == [i \in DOMAIN children |-> children[i].position.x]

Ys(children) == [i \in DOMAIN children |-> children[i].position.y]

\* all(abs(v - sum(vs)/len(vs)) <= max_deviation for v in vs), without division
WithinOfMean(vs, tol) ==
    \A i \in DOMAIN vs : Abs(Len(vs) * vs[i] - SumSeq(vs)) <= tol * Len(vs)

\* a variant that measures the spread from the origin
SpreadFromOrigin(vs) == SetMax(Range(vs))

Spread(vs) == SetMax(Range(vs)) - SetMin(Range(vs))

\* a variant that rejects a deviation of exactly max_deviation
AlignedHorizontallyStrict(children) ==
    /\ Len(children) >= 2
    /\ \A i \in DOMAIN children :
          Abs(Len(children) * Ys(children)[i] - SumSeq(Ys(children))) < MaxDeviation * Len(children)
    /\ Spread(Xs(children)) > MinSpread

\* a variant that tests the axes of the column predicate
AlignedHorizontallyOnColumnAxes(children) ==
    /\ Len(children) >= 2
    /\ WithinOfMean(Xs(children), MaxDeviation)
    /\ Spread(Ys(children)) > MinSpread

_children_aligned_horizontally(children) ==
    /\ Len(children) >= 2
    /\ WithinOfMean(Ys(children), MaxDeviation)
    /\ Spread(Xs(children)) > MinSpread

\* a variant that accepts a spread of exactly 20
AlignedVerticallyLoose(children) ==
    /\ Len(children) >= 2
    /\ WithinOfMean(Xs(children), MaxDeviation)
    /\ Spread(Ys(children)) >= MinSpread

_children_aligned_vertically(children) ==
    /\ Len(children) >= 2
    /\ WithinOfMean(Xs(children), MaxDeviation)
    /\ Spread(Ys(children)) > MinSpread

\* sorted(children, key=...): Python's sort is stable
RECURSIVE InsertByKey(_, _, _)
InsertByKey(sorted, c, axis) ==
    IF sorted = <<>> THEN <<c>>
    ELSE IF c.position[axis] < Head(sorted).position[axis]
         THEN <<c>> \o sorted
         ELSE <<Head(sorted)>> \o InsertByKey(Tail(sorted), c, axis)

\* a variant that leaves the children in list order
SortedByListOrder(children, axis) == children

RECURSIVE SortedBy(_, _)
SortedBy(children, axis) ==
    IF children = <<>> THEN <<>>
    ELSE InsertByKey(SortedBy(SubSeq(children, 1, Len(children) - 1), axis),
                     children[Len(children)], axis)

Extent(axis) == IF axis = "x" THEN "width" ELSE "height"

\* spacings[i] = sorted[i+1].pos - (sorted[i].pos + sorted[i].size)
Spacings(children, axis) ==
    LET s == SortedBy(children, axis)
    IN  [i \in 1..(Len(s) - 1) |->
            s[i + 1].position[axis] - (s[i].position[axis] + s[i].size[Extent(axis)])]

\* number + "auto" raises TypeError; the last child in sorted order is never added
SpacingRaises(children, axis) ==
    LET s == SortedBy(children, axis)
    IN  \E i \in 1..(Len(s) - 1) : s[i].size[Extent(axis)] = Auto

PositiveOnly(gs) == SelectSeq(gs, LAMBDA g : g > 0)

\* a variant that averages every gap, the overlapping ones included
AverageOfAllGaps(gs) ==
    IF PositiveOnly(gs) # <<>> THEN Frac(SumSeq(gs), Len(gs)) ELSE <<0, 1>>

AverageSpacing(gs) ==
    IF PositiveOnly(gs) # <<>>
    THEN Frac(SumSeq(PositiveOnly(gs)), Len(PositiveOnly(gs)))
    ELSE <<0, 1>>

_calculate_horizontal_spacing(children) ==
    IF Len(children) < 2 THEN <<0, 1>> ELSE AverageSpacing(Spacings(children, "x"))

_calculate_vertical_spacing(children) ==
    IF Len(children) < 2 THEN <<0, 1>> ELSE AverageSpacing(Spacings(children, "y"))

FarEdges(children, axis) ==
    [i \in DOMAIN children |-> children[i].position[axis] + children[i].size[Extent(axis)]]

\* twice the centre pos + size/2, to stay in the integers
Centers2(children, axis) ==
    [i \in DOMAIN children |-> 2 * children[i].position[axis] + children[i].size[Extent(axis)]]

Coords(children, axis) == [i \in DOMAIN children |-> children[i].position[axis]]

\* a variant whose start test also accepts a distance of exactly the tolerance
StartAlignedInclusive(children, axis) ==
    \A i \in DOMAIN children :
        Abs(Coords(children, axis)[i] - SetMin(Range(Coords(children, axis)))) <= EdgeTolerance

StartAligned(children, axis) ==
    \A i \in DOMAIN children :
        Abs(Coords(children, axis)[i] - SetMin(Range(Coords(children, axis)))) < EdgeTolerance

EndAligned(children, axis) ==
    \A i \in DOMAIN children :
        Abs(FarEdges(children, axis)[i] - SetMax(Range(FarEdges(children, axis)))) < EdgeTolerance

CenterAligned(children, axis) ==
    LET cs == Centers2(children, axis)
    IN  \A i \in DOMAIN cs :
            Abs(Len(cs) * cs[i] - SumSeq(cs)) < 2 * CenterTolerance * Len(cs)

\* the far edges are computed only when the start test fails
AlignmentRaises(children, axis) ==
    /\ children # <<>>
    /\ ~StartAligned(children, axis)
    /\ \E i \in DOMAIN children : children[i].size[Extent(axis)] = Auto

\* a variant that tests the far edges before the near ones
DetectAlignmentEndFirst(children, axis) ==
    IF children = <<>> THEN ""
    ELSE IF EndAligned(children, axis) THEN "flex-end"
    ELSE IF StartAligned(children, axis) THEN "flex-start"
    ELSE IF CenterAligned(children, axis) THEN "center"
    ELSE IF Cardinality(Range(Coords(children, axis))) > 1 /\ Len(children) > 2
         THEN "space-between"
    ELSE ""

DetectAlignment(children, axis) ==
    IF children = <<>> THEN ""
    ELSE IF StartAligned(children, axis) THEN "flex-start"
    ELSE IF EndAligned(children, axis) THEN "flex-end"
    ELSE IF CenterAligned(children, axis) THEN "center"
    ELSE IF Cardinality(Range(Coords(children, axis))) > 1 /\ Len(children) > 2
         THEN "space-between"
    ELSE ""

_detect_vertical_alignment(children) == DetectAlignment(children, "y")

_detect_horizontal_alignment(children) == DetectAlignment(children, "x")

\* round(v / 10) * 10 with Python's round: halves go to the even neighbour
Round10(v) ==
    LET q == v \div GridBucket
        r == v % GridBucket
    IN  IF 2 * r < GridBucket THEN GridBucket * q
        ELSE IF 2 * r > GridBucket THEN GridBucket * (q + 1)
        ELSE IF q % 2 = 0 THEN GridBucket * q ELSE GridBucket * (q + 1)

Buckets(children, axis) == {Round10(children[i].position[axis]) : i \in DOMAIN children}

\* a variant satisfied by several buckets on one axis only
GridOnEitherAxis(children) ==
    /\ Len(children) >= MinGridChildren
    /\ \/ Cardinality(Buckets(children, "x")) > 1
       \/ Cardinality(Buckets(children, "y")) > 1

_appears_to_be_grid(children) ==
    /\ Len(children) >= MinGridChildren
    /\ Cardinality(Buckets(children, "x")) > 1
    /\ Cardinality(Buckets(children, "y")) > 1

\* (cols, rows)
_detect_grid_dimensions(children) ==
    <<Cardinality(Buckets(children, "x")), Cardinality(Buckets(children, "y"))>>

InBucket(children, axis, b) ==
    {i \in DOMAIN children : Round10(children[i].position[axis]) = b}

\* the buckets that have a successor in ascending order
InnerBuckets(children, axis) ==
    Buckets(children, axis) \ {SetMax(Buckets(children, axis))}

NextBucket(children, axis, b) ==
    SetMin({c \in Buckets(children, axis) : c > b})

\* min x of the next bucket - max (x + width) of this bucket
BucketGap(children, axis, b) ==
    SetMin({children[i].position[axis] :
                i \in InBucket(children, axis, NextBucket(children, axis, b))})
    - SetMax({children[i].position[axis] + children[i].size[Extent(axis)] :
                i \in InBucket(children, axis, b)})

RECURSIVE SumOver(_, _, _)
SumOver(children, axis, bs) ==
    IF bs = {} THEN 0
    ELSE LET b == SetMin(bs)
         IN  BucketGap(children, axis, b) + SumOver(children, axis, bs \ {b})

RECURSIVE SumPositiveOver(_, _, _)
SumPositiveOver(children, axis, bs) ==
    IF bs = {} THEN 0
    ELSE LET b == SetMin(bs)
             g == BucketGap(children, axis, b)
         IN  (IF g > 0 THEN g ELSE 0) + SumPositiveOver(children, axis, bs \ {b})

\* a variant that averages only the positive deltas, as the flow spacing does
AxisGapPositiveOnly(children, axis) ==
    LET positive == {b \in InnerBuckets(children, axis) : BucketGap(children, axis, b) > 0}
    IN  IF positive = {} THEN <<0, 1>>
        ELSE Frac(SumPositiveOver(children, axis, positive), Cardinality(positive))

AxisGap(children, axis) ==
    IF InnerBuckets(children, axis) = {} THEN <<0, 1>>
    ELSE Frac(SumOver(children, axis, InnerBuckets(children, axis)),
              Cardinality(InnerBuckets(children, axis)))

\* max(..., key = x + width) evaluates the key of every member of the bucket
AxisGapRaises(children, axis) ==
    \E b \in InnerBuckets(children, axis) :
        \E i \in InBucket(children, axis, b) : children[i].size[Extent(axis)] = Auto

GridGapsRaise(children) == AxisGapRaises(children, "x") \/ AxisGapRaises(children, "y")

\* (h_gap, v_gap)
_calculate_grid_gaps(children) == <<AxisGap(children, "x"), AxisGap(children, "y")>>

Positive(f) == f[1] > 0

-----------------------------------------------------------------------------
(* _analyze_node_layout and analyze_layout.  A step that raises leaves the *)
(* assignments made before it in place; `raised` carries the exception to  *)
(* the try/except of analyze_layout.                                       *)
(*                                                                         *)
(* analyze_layout recurses once per tree level.  On a children relation    *)
(* with a cycle the recursion runs into the interpreter's recursion limit: *)
(* the RecursionError strikes inside the deepest call, at a frame that     *)
(* depends on the interpreter and on the caller's stack.  `cut` names the  *)
(* place where the deepest _analyze_node_layout stops ("none" for a call   *)
(* that is not cut short).                                                 *)

CutPoints == {"call", "spacing", "alignment", "scan"}

Kids(ns, n) == [i \in DOMAIN ns[n].children |-> ns[ns[n].children[i]]]

Across(along) == IF along = "x" THEN "y" ELSE "x"

\* lines 441-443 (along = "x") and 457-459 (along = "y")
FlowClassified(node, along) ==
    [node EXCEPT !.layout.type = "auto-layout",
                 !.layout.direction = IF along = "x" THEN "horizontal" ELSE "vertical",
                 !.flex_props = [EmptyFlex EXCEPT
                                    !.display = "flex",
                                    !.flex_direction = IF along = "x" THEN "row" ELSE "column"]]

\* lines 446-449 and 462-465
\* a variant that adds the spacing to the one already recorded
FlowSpacedAccumulating(node, children, along) ==
    LET spacing == IF along = "x" THEN _calculate_horizontal_spacing(children)
                   ELSE _calculate_vertical_spacing(children)
        before == node.layout.spacing
    IN  IF Positive(spacing)
        THEN [FlowClassified(node, along) EXCEPT
                 !.layout.spacing = Frac(before[1] * spacing[2] + spacing[1] * before[2],
                                         before[2] * spacing[2]),
                 !.flex_props.gap = spacing]
        ELSE FlowClassified(node, along)

FlowSpaced(node, children, along) ==
    LET spacing == IF along = "x" THEN _calculate_horizontal_spacing(children)
                   ELSE _calculate_vertical_spacing(children)
    IN  IF Positive(spacing)
        THEN [FlowClassified(node, along) EXCEPT !.layout.spacing = spacing,
                                                 !.flex_props.gap = spacing]
        ELSE FlowClassified(node, along)

\* lines 452-454 and 468-470
FlowAligned(node, children, along) ==
    LET alignment == IF along = "x" THEN _detect_vertical_alignment(children)
                     ELSE _detect_horizontal_alignment(children)
    IN  IF alignment # ""
        THEN [FlowSpaced(node, children, along) EXCEPT !.flex_props.align_items = alignment]
        ELSE FlowSpaced(node, children, along)

FlowBranch(node, children, along, cut) ==
    IF cut = "spacing" \/ SpacingRaises(children, along)
    THEN [node |-> FlowClassified(node, along), raised |-> TRUE]
    ELSE IF cut = "alignment" \/ AlignmentRaises(children, Across(along))
    THEN [node |-> FlowSpaced(node, children, along), raised |-> TRUE]
    ELSE [node |-> FlowAligned(node, children, along), raised |-> FALSE]

GridBranch(node, children, cut) ==
    LET dims == _detect_grid_dimensions(children)
        classified == [node EXCEPT !.layout.type = "grid",
                                   !.grid_props = [EmptyGrid EXCEPT !.display = "grid",
                                                                    !.cols = dims[1],
                                                                    !.rows = dims[2]]]
        gaps == _calculate_grid_gaps(children)
        withH == IF Positive(gaps[1])
                 THEN [classified EXCEPT !.grid_props.column_gap = gaps[1]]
                 ELSE classified
        withV == IF Positive(gaps[2])
                 THEN [withH EXCEPT !.grid_props.row_gap = gaps[2]]
                 ELSE withH
    IN  IF cut = "spacing" \/ GridGapsRaise(children)
        THEN [node |-> classified, raised |-> TRUE]
        ELSE [node |-> withV, raised |-> FALSE]

Unclassified(node) == [node |-> node, raised |-> FALSE]

\* a variant that tests the grid predicate before the row and column predicates
ClassifyGridFirst(node, children, cut) ==
    IF _appears_to_be_grid(children) THEN GridBranch(node, children, cut)
    ELSE IF _children_aligned_horizontally(children) THEN FlowBranch(node, children, "x", cut)
    ELSE IF _children_aligned_vertically(children) THEN FlowBranch(node, children, "y", cut)
    ELSE Unclassified(node)

\* a variant whose grid test is an independent `if` after the row/column chain
ClassifyEveryMatch(node, children, cut) ==
    LET flow == IF _children_aligned_horizontally(children)
                THEN FlowBranch(node, children, "x", cut)
                ELSE IF _children_aligned_vertically(children)
                THEN FlowBranch(node, children, "y", cut)
                ELSE Unclassified(node)
    IN  IF ~flow.raised /\ _appears_to_be_grid(children)
        THEN GridBranch(flow.node, children, cut)
        ELSE flow

\* a variant whose fallback branch resets the layout descriptor
ClassifyResetsFallback(node, children, cut) ==
    IF _children_aligned_horizontally(children) THEN FlowBranch(node, children, "x", cut)
    ELSE IF _children_aligned_vertically(children) THEN FlowBranch(node, children, "y", cut)
    ELSE IF _appears_to_be_grid(children) THEN GridBranch(node, children, cut)
    ELSE Unclassified([node EXCEPT !.layout.type = "default", !.layout.direction = "None"])

\* the if / elif chain of lines 440-487
Classify(node, children, cut) ==
    IF _children_aligned_horizontally(children) THEN FlowBranch(node, children, "x", cut)
    ELSE IF _children_aligned_vertically(children) THEN FlowBranch(node, children, "y", cut)
    ELSE IF _appears_to_be_grid(children) THEN GridBranch(node, children, cut)
    ELSE Unclassified(node)

HasAbsoluteChild(children) ==
    \E i \in DOMAIN children : children[i].position.position = "absolute"

\* a variant that acts only when every child is absolute
ForceRelativeWhenAllAbsolute(node, children) ==
    IF (\A i \in DOMAIN children : children[i].position.position = "absolute")
       /\ node.flex_props = EmptyFlex /\ node.grid_props = EmptyGrid
    THEN [node EXCEPT !.position.position = "relative"]
    ELSE node

\* a variant that rebuilds the container's box as an unpositioned one
ForceRelativeResetsBox(node, children) ==
    IF HasAbsoluteChild(children)
       /\ node.flex_props = EmptyFlex /\ node.grid_props = EmptyGrid
    THEN [node EXCEPT !.position = [x |-> 0, y |-> 0, position |-> "relative"],
                      !.size = [width |-> Auto, height |-> Auto]]
    ELSE node

\* lines 489-494: reached only when the classification did not raise
ForceRelative(node, children) ==
    IF HasAbsoluteChild(children)
       /\ node.flex_props = EmptyFlex /\ node.grid_props = EmptyGrid
    THEN [node EXCEPT !.position.position = "relative"]
    ELSE node

_analyze_node_layout(ns, n, cut) ==
    IF cut = "call" THEN [nodes |-> ns, raised |-> TRUE]
    ELSE IF ~ns[n].is_container \/ ns[n].children = <<>>
    THEN [nodes |-> ns, raised |-> FALSE]
    ELSE LET c == Classify(ns[n], Kids(ns, n), cut)
             \* the scan reads the children after the container's own update
             ns1 == [ns EXCEPT ![n] = c.node]
         IN  IF c.raised \/ cut = "scan"
             THEN [nodes |-> ns1, raised |-> TRUE]
             ELSE [nodes |-> [ns1 EXCEPT ![n] = ForceRelative(c.node, Kids(ns1, n))],
                   raised |-> FALSE]

\* analyze_layout(lst) at call depth d.  Past RecursionLimit the call is the one
\* the RecursionError strikes in: its first node is analysed up to `cut`, and the
\* exception goes to the caller's per-node handler.
RECURSIVE analyze_layout(_, _, _, _)
RECURSIVE AnalyzeChildren(_, _, _, _, _)
AnalyzeChildren(ns, kids, k, d, cut) ==
    IF k > Len(kids) THEN ns
    ELSE LET r == analyze_layout(ns, <<kids[k]>>, d + 1, cut)
         IN  IF r.raised THEN r.nodes
             ELSE AnalyzeChildren(r.nodes, kids, k + 1, d, cut)

RECURSIVE AnalyzeEach(_, _, _, _, _)
RECURSIVE AnalyzeChildrenFirst(_, _, _, _, _)
\* a variant that descends into the children before it classifies the node
AnalyzeChildrenFirst(ns, lst, j, d, cut) ==
    IF j > Len(lst) THEN ns
    ELSE LET below == AnalyzeChildren(ns, ns[lst[j]].children, 1, d, cut)
             r == _analyze_node_layout(below, lst[j], "none")
         IN  AnalyzeChildrenFirst(r.nodes, lst, j + 1, d, cut)

AnalyzeEach(ns, lst, j, d, cut) ==
    IF j > Len(lst) THEN ns
    ELSE LET r == _analyze_node_layout(ns, lst[j], "none")
         IN  IF r.raised THEN AnalyzeEach(r.nodes, lst, j + 1, d, cut)
             ELSE AnalyzeEach(AnalyzeChildren(r.nodes, r.nodes[lst[j]].children, 1, d, cut),
                              lst, j + 1, d, cut)

analyze_layout(ns, lst, d, cut) ==
    IF d > RecursionLimit
    THEN [nodes |-> IF lst = <<>> THEN ns ELSE _analyze_node_layout(ns, lst[1], cut).nodes,
          raised |-> TRUE]
    ELSE [nodes |-> AnalyzeEach(ns, lst, 1, d, cut), raised |-> FALSE]

-----------------------------------------------------------------------------
(* The pipeline of enhanced_generator.generate_enhanced_angular_code:      *)
(* a record list is converted once, then the roots are analysed.           *)

Convert ==
    /\ pc = "input"
    /\ LET b == convert_to_angular_nodes(figma_nodes)
       IN  /\ nodes' = b.nodes
           /\ node_map' = [keys |-> b.keys, map |-> b.map]
           /\ root_nodes' = b.roots
    /\ pc' = "built"
    /\ UNCHANGED <<document, figma_nodes>>

\* whether the calls of analyze_layout(lst) can nest past RecursionLimit, which
\* takes a children relation with a cycle
RECURSIVE Overflows(_, _, _)
Overflows(ns, lst, d) ==
    \/ d > RecursionLimit
    \/ \E j \in DOMAIN lst : \E k \in DOMAIN ns[lst[j]].children :
           Overflows(ns, <<ns[lst[j]].children[k]>>, d + 1)

\* how deep the calls of analyze_layout(lst) nest, the call at depth d counted,
\* as far as RecursionLimit lets them: a node whose own analysis raises has
\* its children skipped
RECURSIVE NestingDepth(_, _, _)
NestingDepth(ns, lst, d) ==
    IF d > RecursionLimit THEN d
    ELSE SetMax({d} \cup UNION
            {{NestingDepth(ns, <<c>>, d + 1) : c \in Range(ns[lst[j]].children)} :
                j \in {i \in DOMAIN lst : ~_analyze_node_layout(ns, lst[i], "none").raised}})

\* the interruption point matters only to a run that hits the recursion limit
Interruptions(ns, lst) == IF Overflows(ns, lst, 1) THEN CutPoints ELSE {"call"}

Analyze ==
    /\ pc \in {"built", "analyzed"}
    /\ \E cut \in Interruptions(nodes, root_nodes) :
           nodes' = analyze_layout(nodes, root_nodes, 1, cut).nodes
    /\ pc' = "analyzed"
    /\ UNCHANGED <<document, figma_nodes, node_map, root_nodes>>

Next == Convert \/ Analyze

-----------------------------------------------------------------------------
(* figma_to_angular/utils.py and enhanced_generator.py: from the Figma      *)
(* document to the flat record list.  A document is given by the type and  *)
(* the parent of each of its nodes; node 1 is the root, the id of a node   *)
(* is its index, and the children of a node are listed by ascending index. *)
(* The type "" stands for a node without a "type" key.                     *)

NoDocument == [types |-> <<>>, parents |-> <<>>]

\* node["children"]
DocChildren(doc, i) ==
    SelectSeq([k \in DOMAIN doc.types |-> k], LAMBDA j : doc.parents[j] = i)

\* extract_nodes: every typed node reached through typed nodes, parent first
RECURSIVE traverse_node(_, _)
RECURSIVE TraverseEach(_, _)
traverse_node(doc, i) ==
    IF doc.types[i] = "" THEN <<>>
    ELSE <<i>> \o TraverseEach(doc, DocChildren(doc, i))

TraverseEach(doc, children) ==
    IF children = <<>> THEN <<>>
    ELSE traverse_node(doc, Head(children)) \o TraverseEach(doc, Tail(children))

extract_nodes(doc) == IF doc.types = <<>> THEN <<>> ELSE traverse_node(doc, 1)

\* the node types flatten_figma_tree starts a traversal from
FlattenRoots == {"CANVAS", "FRAME", "GROUP", "COMPONENT"}

\* node.copy() without its children: nodes stand 30 apart in a line
NodeCopy(doc, i) ==
    WithId(WithBBox([BareDict EXCEPT !.type = doc.types[i]], 30 * (i - 1), 0, 10, 10), i)

\* process_node(node, parent): the children's records first, each naming
\* this node as parent, then the node's own record; parent 0 is None
RECURSIVE process_node(_, _, _)
RECURSIVE ProcessEach(_, _, _)
process_node(doc, i, parent) ==
    ProcessEach(doc, DocChildren(doc, i), i)
        \o <<IF parent # 0 THEN WithParent(NodeCopy(doc, i), parent) ELSE NodeCopy(doc, i)>>

ProcessEach(doc, children, parent) ==
    IF children = <<>> THEN <<>>
    ELSE process_node(doc, Head(children), parent) \o ProcessEach(doc, Tail(children), parent)

\* one traversal from every node of the list whose type is in FlattenRoots
RECURSIVE flatten_figma_tree(_, _)
flatten_figma_tree(doc, lst) ==
    IF lst = <<>> THEN <<>>
    ELSE (IF doc.types[Head(lst)] \in FlattenRoots THEN process_node(doc, Head(lst), 0)
          ELSE <<>>) \o flatten_figma_tree(doc, Tail(lst))

MaxSafeNodes == 500

\* flattened_nodes[:max_safe_nodes]
Truncated(flattened, node_limit) ==
    LET max_safe_nodes == IF node_limit < MaxSafeNodes THEN node_limit ELSE MaxSafeNodes
    IN  IF Len(flattened) > max_safe_nodes THEN SubSeq(flattened, 1, max_safe_nodes)
        ELSE flattened

\* the node limits tried: one that cuts the longer lists, and the default
NodeLimits == {4, 50}

\* generate_enhanced_angular_code up to the call of convert_to_angular_nodes
Flatten ==
    /\ pc = "document"
    /\ document.types # <<>>
    /\ \E node_limit \in NodeLimits :
           figma_nodes' = Truncated(flatten_figma_tree(document, extract_nodes(document)),
                                    node_limit)
    /\ pc' = "input"
    /\ UNCHANGED <<document, nodes, node_map, root_nodes>>

NextPipeline == Flatten \/ Next

InitState(recs) ==
    /\ document = NoDocument
    /\ figma_nodes = recs
    /\ nodes = <<>>
    /\ node_map = [keys |-> <<>>, map |-> <<>>]
    /\ root_nodes = <<>>
    /\ pc = "input"

-----------------------------------------------------------------------------
(* Inputs of the layout specification: one container record followed by    *)
(* its child records, every child naming the container as parent.          *)

CoordValues == {0, 10, 30}

Shape(x, y, w, h) == WithBBox([BareDict EXCEPT !.type = "RECTANGLE"], x, y, w, h)

\* the 3 x 3 lattice without the two off-diagonal corners (10, 30) and (30, 10)
PlainShapes ==
    {Shape(x, y, 10, 10) : x \in CoordValues, y \in CoordValues} \
        {Shape(10, 30, 10, 10), Shape(30, 10, 10, 10)}

AbsoluteShape == [Shape(0, 0, 10, 10) EXCEPT !.horizontal = "LEFT_RIGHT"]

\* no absoluteBoundingBox: position (0, 0), size "auto"
BoxlessShape == [BareDict EXCEPT !.type = "TEXT"]

WideShape == Shape(0, 0, 40, 40)

\* x coordinates on a rounding tie: 15 and 25 both round to 20
TieShapes == {Shape(15, 0, 10, 10), Shape(25, 30, 10, 10)}

SpecialShapes ==
    {Shape(30, 0, 10, 10), Shape(0, 30, 10, 10), Shape(30, 30, 10, 10),
     AbsoluteShape, BoxlessShape, WideShape}

\* three corners of the lattice, its middle, and the child without a bounding box
GridShapes ==
    {Shape(0, 0, 10, 10), Shape(30, 0, 10, 10), Shape(0, 30, 10, 10), Shape(10, 10, 10, 10),
     BoxlessShape}

\* the children given to the other kinds of container
ContainedShapes ==
    {Shape(30, 0, 10, 10), Shape(0, 30, 10, 10), AbsoluteShape, BoxlessShape, WideShape}

RoundingShapes == TieShapes \cup {Shape(0, 0, 10, 10), Shape(30, 30, 10, 10)}

Frame == WithId(Shape(0, 0, 100, 100), 1)

PlainContainer == [Frame EXCEPT !.type = "FRAME"]

\* a frame that carries Figma auto-layout data
PresetContainer ==
    [Frame EXCEPT !.type = "FRAME", !.layoutMode = "HORIZONTAL", !.itemSpacing = 8,
                  !.horizontal = "LEFT_RIGHT"]

\* a record that names its own id as parent_id
SelfParentContainer ==
    WithParent([Frame EXCEPT !.type = "FRAME", !.vertical = "TOP_BOTTOM"], 1)

\* a kind outside ContainerTypes that still owns children
CanvasContainer == [Frame EXCEPT !.type = "CANVAS"]

\* the kinds of container other than the plain frame
Containers == {PresetContainer, SelfParentContainer, CanvasContainer}

Family(container, shapes) ==
    <<container>> \o [i \in DOMAIN shapes |-> WithParent(WithId(shapes[i], i + 1), 1)]

\* lists too short for a grid
InitGeometry ==
    \E k \in 0..(MaxChildren - 1) : \E shapes \in [1..k -> PlainShapes] :
        InitState(Family(PlainContainer, shapes))

InitSpecial ==
    \E k \in 0..(MaxChildren - 1) : \E shapes \in [1..k -> SpecialShapes] :
        InitState(Family(PlainContainer, shapes))

\* the longest lists, which can form a grid
InitGrid ==
    \E shapes \in [1..MaxChildren -> GridShapes] :
        InitState(Family(PlainContainer, shapes))

\* the other kinds of container, with one child fewer
InitContainers ==
    \E c \in Containers : \E k \in 0..(MaxChildren - 1) :
        \E shapes \in [1..k -> ContainedShapes] : InitState(Family(c, shapes))

InitRounding ==
    \E k \in 0..MaxChildren : \E shapes \in [1..k -> RoundingShapes] :
        InitState(Family(PlainContainer, shapes))

\* (coordinate, extent) of a child on the cross axis
Profiles ==
    {<<0, 10>>, <<0, 20>>, <<2, 8>>, <<5, 10>>, <<10, 10>>, <<10, 30>>, <<10, 40>>}

\* children 30 apart along one axis, each with its own profile on the other
Staggered(profiles, along) ==
    [i \in DOMAIN profiles |->
        IF along = "x" THEN Shape(30 * (i - 1), profiles[i][1], 10, profiles[i][2])
        ELSE Shape(profiles[i][1], 30 * (i - 1), profiles[i][2], 10)]

InitAlignment ==
    \E k \in 2..(MaxChildren - 1) : \E profiles \in [1..k -> Profiles] :
        \E along \in {"x", "y"} :
            InitState(Family(PlainContainer, Staggered(profiles, along)))

\* the outer node of a three-level tree: a frame, a frame created absolute, a canvas
OuterRecords ==
    {PlainContainer, [PlainContainer EXCEPT !.vertical = "TOP_BOTTOM"], CanvasContainer}

\* the inner node, a child of the outer one that owns children itself
InnerRecords ==
    {[Shape(x, 0, 20, 20) EXCEPT !.type = type, !.horizontal = h] :
        x \in {0, 30}, type \in {"FRAME", "CANVAS"}, h \in {"", "LEFT_RIGHT"}}

SiblingShapes == {Shape(0, 0, 10, 10), Shape(30, 30, 10, 10), BoxlessShape}

LeafShapes == {Shape(0, 0, 10, 10), Shape(30, 0, 10, 10), Shape(0, 30, 10, 10), AbsoluteShape}

\* record 1 owns records 2 and 3, record 2 owns records 4 and 5
Nested(outer, inner, sibling, leaves) ==
    <<outer, WithParent(WithId(inner, 2), 1), WithParent(WithId(sibling, 3), 1)>>
    \o [i \in DOMAIN leaves |-> WithParent(WithId(leaves[i], i + 3), 2)]

InitNested ==
    \E outer \in OuterRecords : \E inner \in InnerRecords : \E sibling \in SiblingShapes :
        \E leaves \in [1..2 -> LeafShapes] :
            InitState(Nested(outer, inner, sibling, leaves))

InitLayout ==
    InitGeometry \/ InitSpecial \/ InitGrid \/ InitContainers \/ InitRounding \/ InitAlignment
    \/ InitNested

SpecLayout == InitLayout /\ [][Next]_vars

\* one plain frame and its children, for the properties that compare two
\* classifications of the same children
InitPlainFrame == InitGeometry \/ InitSpecial \/ InitGrid \/ InitRounding

SpecPlainFrame == InitPlainFrame /\ [][Next]_vars

-----------------------------------------------------------------------------
(* Inputs of the pipeline specification: the documents of up to            *)
(* RecursionLimit nodes, so that none nests deeper than the analysis       *)
(* follows.                                                                *)

RootTypes == {"DOCUMENT", "CANVAS"}

InnerTypes == {"CANVAS", "FRAME", "RECTANGLE", ""}

Documents ==
    UNION {{[types |-> types, parents |-> parents] :
               types \in {t \in [1..n -> RootTypes \cup InnerTypes] :
                             /\ t[1] \in RootTypes
                             /\ \A i \in 2..n : t[i] \in InnerTypes},
               parents \in {q \in [1..n -> 0..n] :
                               /\ q[1] = 0
                               /\ \A i \in 2..n : q[i] \in 1..(i - 1)}} :
           n \in 1..RecursionLimit}

InitDocument ==
    /\ document \in Documents
    /\ figma_nodes = <<>>
    /\ nodes = <<>>
    /\ node_map = [keys |-> <<>>, map |-> <<>>]
    /\ root_nodes = <<>>
    /\ pc = "document"

SpecPipeline == InitDocument /\ [][NextPipeline]_vars

-----------------------------------------------------------------------------
(* Inputs of the builder specification: up to MaxRecords records over two   *)
(* ids, with resolvable, unresolvable, own and absent parent_id, records    *)
(* whose construction raises, records without id and values that are not    *)
(* mappings.  The i-th record sits at x = 30 * (i - 1).                     *)

BuildIds == {1, 2}

FrameRecords == {WithId([BareDict EXCEPT !.type = "FRAME"], id) : id \in BuildIds}

\* a parent_id resolves only when a record of the list carries that id
ChildRecords == {WithParent(r, pid) : r \in FrameRecords, pid \in BuildIds}

\* records whose construction raises: a fill without "type"
RaisingRecords ==
    {[r EXCEPT !.fills_typed = FALSE] :
        r \in {c \in FrameRecords \cup ChildRecords : c.has_parent => c.parent_id # c.id}}

BuildRecords ==
    FrameRecords \cup ChildRecords \cup RaisingRecords
    \cup {NotADict, [BareDict EXCEPT !.type = "FRAME"]}

Placed(recs) ==
    [i \in DOMAIN recs |->
        IF recs[i].dict THEN WithBBox(recs[i], 30 * (i - 1), 0, 10, 10) ELSE recs[i]]

InitBuild ==
    \E k \in 0..MaxRecords : \E recs \in [1..k -> BuildRecords] : InitState(Placed(recs))

\* an id that no record carries: a parent_id naming it never resolves
MissingId == SetMax(BuildIds) + 1

\* records with a parent_id other than their own id, the missing id included
LinkedRecords ==
    FrameRecords
    \cup ({WithParent(r, pid) : r \in FrameRecords, pid \in BuildIds \cup {MissingId}}
             \ {WithParent(r, r.id) : r \in FrameRecords})

InitLinked ==
    \E k \in 1..MaxRecords : \E recs \in [1..k -> LinkedRecords] : InitState(Placed(recs))

\* a frame and three child records of it that draw their ids from two values,
\* so that an id can come back after another child
InitSiblings ==
    \E ids \in [1..3 -> {2, 3}] :
        InitState(Placed(<<WithId([BareDict EXCEPT !.type = "FRAME"], 1)>>
                         \o [i \in 1..3 |->
                                WithParent(WithId([BareDict EXCEPT !.type = "FRAME"], ids[i]), 1)]))

InitBuilder == InitBuild \/ InitLinked \/ InitSiblings

SpecBuild == InitBuilder /\ [][Next]_vars

-----------------------------------------------------------------------------
(* Inputs of the naming specification: one record, its name drawn from the  *)
(* role keywords or from single characters, its kind and font metrics from  *)
(* both sides of every threshold.                                           *)

RoleWords ==
    {"button", "btn", "card", "input", "select", "checkbox", "radio", "tab", "dialog",
     "menu", "toolbar", "icon", "chip", "progress", "submit", "Button"}

Characters == {"x", "X", "7", "_", "-", " ", "!", "e_acute"}

Kind(type) == WithId([BareDict EXCEPT !.type = type], 1)

TextStyles ==
    {<<H1Size + 2, 400>>, <<H1Size, 400>>, <<H2Size, 400>>, <<H3Size, 700>>,
     <<H3Size, StrongWeight>>}

Kinds ==
    {Kind("FRAME"), Kind("RECTANGLE"), Kind("TEXT")}
    \cup {WithStyle(Kind("TEXT"), st[1], st[2]) : st \in TextStyles}

InitRoles ==
    \E k \in 0..MaxWords : \E name \in [1..k -> RoleWords] : \E rec \in Kinds :
        InitState(<<WithName(rec, name)>>)

\* every word of the vocabulary alone, and after the progress keyword
InitSynonyms ==
    \E w \in LowerWords \cup UpperWords : \E rec \in Kinds :
        \/ InitState(<<WithName(rec, <<w>>)>>)
        \/ InitState(<<WithName(rec, <<"progress", w>>)>>)

InitCharacters ==
    \E k \in 0..MaxChars : \E name \in [1..k -> Characters] :
        InitState(<<WithName(Kind("FRAME"), name)>>)

InitNames == InitRoles \/ InitSynonyms \/ InitCharacters

SpecNames == InitNames /\ [][Next]_vars

-----------------------------------------------------------------------------
(* Vocabulary of the properties *)

Analysed == pc = "analyzed"

Built == pc \in {"built", "analyzed"}

\* the root nodes on which _analyze_node_layout goes past its first guard
RootContainers ==
    {n \in Range(root_nodes) : nodes[n].is_container /\ nodes[n].children # <<>>}

ClassifiedRow(node) ==
    /\ node.layout.type = "auto-layout"
    /\ node.layout.direction = "horizontal"
    /\ node.flex_props.display = "flex"
    /\ node.flex_props.flex_direction = "row"

ClassifiedColumn(node) ==
    /\ node.layout.type = "auto-layout"
    /\ node.layout.direction = "vertical"
    /\ node.flex_props.display = "flex"
    /\ node.flex_props.flex_direction = "column"

ClassifiedGrid(node) ==
    /\ node.layout.type = "grid"
    /\ node.grid_props.display = "grid"

NoProps(node) == node.flex_props = EmptyFlex /\ node.grid_props = EmptyGrid

\* at least 2 children, every coordinate on `across` within 5 of the mean,
\* and max - min on `along` strictly above 20
AlignedCondition(children, along, across) ==
    LET n == Len(children)
        total == SumSeq([i \in 1..n |-> children[i].position[across]])
    IN  /\ n >= 2
        /\ \A i \in 1..n :
              /\ n * children[i].position[across] - total <= 5 * n
              /\ total - n * children[i].position[across] <= 5 * n
        /\ \E i, j \in 1..n : children[i].position[along] - children[j].position[along] > 20

RowCondition(children) == AlignedCondition(children, "x", "y")

ColumnCondition(children) == AlignedCondition(children, "y", "x")

GridCondition(children) ==
    /\ Len(children) >= 4
    /\ Cardinality(Buckets(children, "x")) > 1
    /\ Cardinality(Buckets(children, "y")) > 1

-----------------------------------------------------------------------------
(* Layout classifier properties, checked under SpecLayout *)

\* C1: the predicates are tried in the order row, column, grid, fallback and the
\* first that holds decides: children satisfying the row (or column) predicate give
\* a row (or column) even when the grid predicate holds too, grid is chosen only
\* when neither the row nor the column predicate holds, and when none holds no
\* flex or grid property is set.
C1_FirstMatchingPredicateDecides ==
    Analysed =>
        \A n \in RootContainers :
            LET node == nodes[n]
                children == Kids(nodes, n)
                row == _children_aligned_horizontally(children)
                column == _children_aligned_vertically(children)
                grid == _appears_to_be_grid(children)
            IN  /\ row => ClassifiedRow(node) /\ node.grid_props = EmptyGrid
                /\ (~row /\ column) => ClassifiedColumn(node) /\ node.grid_props = EmptyGrid
                /\ (~row /\ ~column /\ grid) => ClassifiedGrid(node) /\ node.flex_props = EmptyFlex
                /\ ClassifiedGrid(node) => ~row /\ ~column
                /\ (~row /\ ~column /\ ~grid) => NoProps(node)

\* a container whose children satisfy the row and the grid predicate, classified row
C1_Witness ==
    /\ Analysed
    /\ \E n \in RootContainers :
          /\ _children_aligned_horizontally(Kids(nodes, n))
          /\ _appears_to_be_grid(Kids(nodes, n))
          /\ ClassifiedRow(nodes[n])

\* C2: an analysed container with children is classified row (auto-layout,
\* horizontal, display flex, flex-direction row) if and only if it has at least 2
\* children, every child's y is within 5 of the mean y, and max(x) - min(x) > 20.
C2_RowIffAlignedHorizontally ==
    Analysed =>
        \A n \in RootContainers : ClassifiedRow(nodes[n]) <=> RowCondition(Kids(nodes, n))

\* a row whose children deviate from the mean y by exactly 5
C2_Witness ==
    /\ Analysed
    /\ \E n \in RootContainers :
          LET children == Kids(nodes, n)
          IN  /\ ClassifiedRow(nodes[n])
              /\ \E i \in DOMAIN children :
                    Len(children) * children[i].position.y - SumSeq(Ys(children))
                        = 5 * Len(children)

\* C3: an analysed container with children for which the row predicate is false
\* is classified column (auto-layout, vertical, display flex, flex-direction
\* column) if and only if it has at least 2 children, every child's x is within 5
\* of the mean x, and max(y) - min(y) > 20.
C3_ColumnIffAlignedVertically ==
    Analysed =>
        \A n \in RootContainers :
            ~RowCondition(Kids(nodes, n)) =>
                (ClassifiedColumn(nodes[n]) <=> ColumnCondition(Kids(nodes, n)))

\* children that fail the row predicate and are classified column
C3_Witness ==
    /\ Analysed
    /\ \E n \in RootContainers :
          /\ ~RowCondition(Kids(nodes, n))
          /\ ColumnCondition(Kids(nodes, n))
          /\ ClassifiedColumn(nodes[n])

\* C4: when neither the row nor the column predicate holds, the container is
\* classified grid if and only if it has at least 4 children and both the x and the
\* y coordinates rounded to the nearest 10 take more than one value; the column
\* (row) count is the number of distinct rounded x (y); children with a single
\* bucket on one axis are never classified grid.
C4_GridIffBucketsOnBothAxes ==
    Analysed =>
        \A n \in RootContainers :
            LET node == nodes[n]
                children == Kids(nodes, n)
            IN  /\ (~RowCondition(children) /\ ~ColumnCondition(children)) =>
                      (ClassifiedGrid(node) <=> GridCondition(children))
                /\ ClassifiedGrid(node) =>
                      /\ node.grid_props.cols = Cardinality(Buckets(children, "x"))
                      /\ node.grid_props.rows = Cardinality(Buckets(children, "y"))
                /\ (Cardinality(Buckets(children, "x")) = 1
                    \/ Cardinality(Buckets(children, "y")) = 1) => ~ClassifiedGrid(node)

\* four children with two distinct x that fall into one bucket, left unclassified
C4_Witness ==
    /\ Analysed
    /\ \E n \in RootContainers :
          LET children == Kids(nodes, n)
          IN  /\ Len(children) >= 4
              /\ Cardinality(Range(Xs(children))) > 1
              /\ Cardinality(Buckets(children, "x")) = 1
              /\ Cardinality(Buckets(children, "y")) > 1
              /\ ~RowCondition(children) /\ ~ColumnCondition(children)
              /\ NoProps(nodes[n])

\* gaps between neighbours, as the properties state them
RECURSIVE SumPositive(_)
SumPositive(gs) ==
    IF gs = <<>> THEN 0
    ELSE (IF Head(gs) > 0 THEN Head(gs) ELSE 0) + SumPositive(Tail(gs))

CountPositive(gs) == Cardinality({i \in DOMAIN gs : gs[i] > 0})

NumericExtents(children, axis) ==
    \A i \in DOMAIN children : children[i].size[Extent(axis)] # Auto

\* the spacing a flow container must show along `axis`; `rest` is the value
\* layout.spacing must have when no gap is positive
FlowSpacingOk(node, children, axis, rest) ==
    LET gs == Spacings(children, axis)
    IN  IF CountPositive(gs) > 0
        THEN /\ node.layout.spacing[1] * CountPositive(gs)
                    = node.layout.spacing[2] * SumPositive(gs)
             /\ node.layout.spacing[2] > 0
             /\ node.flex_props.gap \in {NoGap, node.layout.spacing}
        ELSE /\ node.flex_props.gap = NoGap
             /\ node.layout.spacing = rest

C6_FewChildrenKeepCreationLayout ==
    Analysed =>
        \A n \in DOMAIN nodes :
            (nodes[n].is_container /\ Len(nodes[n].children) < 2) =>
                /\ NoProps(nodes[n])
                /\ nodes[n].layout = _extract_layout(figma_nodes[n])

\* C6 as stated: layout.type is default for every container with fewer than 2 children
C6_FewChildrenAreDefault ==
    Analysed =>
        \A n \in DOMAIN nodes :
            (nodes[n].is_container /\ Len(nodes[n].children) < 2) =>
                /\ NoProps(nodes[n])
                /\ nodes[n].layout.type = "default"

\* an analysed root container with exactly one child
C6_Witness ==
    /\ Analysed
    /\ \E n \in RootContainers : Len(nodes[n].children) = 1 /\ NoProps(nodes[n])

C8_FlexAndGridExclusive ==
    \A n \in DOMAIN nodes :
        /\ ~(nodes[n].flex_props # EmptyFlex /\ nodes[n].grid_props # EmptyGrid)
        /\ nodes[n].grid_props # EmptyGrid => nodes[n].layout.type = "grid"
        /\ nodes[n].flex_props # EmptyFlex =>
              nodes[n].layout.direction \in {"horizontal", "vertical"}

\* children satisfying the row and the grid predicate, after analysis: only flex
C8_Witness ==
    /\ Analysed
    /\ \E n \in RootContainers :
          /\ _appears_to_be_grid(Kids(nodes, n))
          /\ nodes[n].flex_props # EmptyFlex
          /\ nodes[n].grid_props = EmptyGrid

-----------------------------------------------------------------------------
(* Tree builder properties, checked under SpecBuild *)

\* the places <<p, k>> where node n sits in a children list
Places(n) ==
    {pk \in (DOMAIN nodes) \X (1..(2 * Len(figma_nodes))) :
        pk[2] \in DOMAIN nodes[pk[1]].children /\ nodes[pk[1]].children[pk[2]] = n}

Attached(n) == Places(n) # {} \/ nodes[n].parent # 0

\* C9: after convert_to_angular_nodes, every node that was attached and is not in
\* the returned root list has exactly one owning parent: it appears exactly once,
\* in exactly one children list, and its parent back-reference is that node; for
\* every record list, also one in which an id occurs in several records.
C9_ExactlyOneOwningParent ==
    Built =>
        \A n \in DOMAIN nodes :
            (Attached(n) /\ n \notin Range(root_nodes)) =>
                /\ Cardinality(Places(n)) = 1
                /\ \A pk \in Places(n) : nodes[n].parent = pk[1]

\* the records that give a node: mappings with an id whose construction succeeds
GoodRecord(rec) == IsValid(rec) /\ ~ConstructionRaises(rec)

RECURSIVE GoodIndices(_, _)
GoodIndices(recs, i) ==
    IF i > Len(recs) THEN <<>>
    ELSE IF GoodRecord(recs[i]) THEN <<i>> \o GoodIndices(recs, i + 1)
    ELSE GoodIndices(recs, i + 1)

\* the build of the list without its bad records, its nodes renamed to the
\* positions their records have in the full list
BuildWithoutBad(recs) ==
    LET idx == GoodIndices(recs, 1)
        b == convert_to_angular_nodes([j \in DOMAIN idx |-> recs[idx[j]]])
        back(j) == IF j = 0 THEN 0 ELSE idx[j]
    IN  [nodes |-> [i \in Range(idx) |->
                       LET j == CHOOSE k \in DOMAIN idx : idx[k] = i
                       IN  [b.nodes[j] EXCEPT
                              !.parent = back(b.nodes[j].parent),
                              !.children = [k \in DOMAIN b.nodes[j].children |->
                                               back(b.nodes[j].children[k])]]],
         roots |-> [k \in DOMAIN b.roots |-> back(b.roots[k])]]

\* C10: bad records (not a mapping, no id, or a failing field extraction) are
\* dropped, and every other record yields its node, its children, its parent and
\* the roots exactly as if the bad records had not been in the list.
C10_BadRecordsLeaveNoTrace ==
    pc = "built" =>
        /\ nodes = BuildWithoutBad(figma_nodes).nodes
        /\ root_nodes = BuildWithoutBad(figma_nodes).roots

\* the nodes reachable from the returned roots along children lists
RECURSIVE Descend(_, _)
Descend(seen, steps) ==
    LET next == seen \cup UNION {Range(nodes[p].children) : p \in seen}
    IN  IF steps = 0 \/ next = seen THEN seen ELSE Descend(next, steps - 1)

ReachableFromRoots == Descend(Range(root_nodes), Len(figma_nodes))

\* record i gave a node and names a parent_id that no constructed node carries
Unresolved(i) ==
    /\ i \in DOMAIN nodes
    /\ figma_nodes[i].has_parent
    /\ figma_nodes[i].parent_id \notin DOMAIN node_map.map

\* C11: for every input list, the node of a record whose parent_id does not
\* resolve to a constructed node is in no children list and is unreachable from
\* every returned root: it is neither a returned root nor a descendant of one.
C11_OrphansUnreachable ==
    Built =>
        \A i \in DOMAIN nodes :
            Unresolved(i) => Places(i) = {} /\ i \notin ReachableFromRoots

\* no record of the input gave a node
NoNodeBuilt == \A i \in DOMAIN figma_nodes : ~GoodRecord(figma_nodes[i])

\* the root list was empty after the passes and the fallback filled it
FallbackApplied ==
    /\ ~NoNodeBuilt
    /\ \A i \in DOMAIN figma_nodes : GoodRecord(figma_nodes[i]) => figma_nodes[i].has_parent

FirstNode == SetMin(DOMAIN nodes)

\* C13: when every valid record carries a parent_id and at least one node was
\* constructed, exactly one root is returned and it is the first-encountered node
\* of the input order; when at least one valid record lacks parent_id the
\* fallback is not applied: every returned root is built from a record without
\* parent_id.
C13_FallbackRootIsFirstNode ==
    pc = "built" =>
        /\ ((\A i \in DOMAIN figma_nodes : IsValid(figma_nodes[i]) => figma_nodes[i].has_parent)
                /\ DOMAIN nodes # {})
              => root_nodes = <<FirstNode>>
        /\ (\E i \in DOMAIN figma_nodes : IsValid(figma_nodes[i]) /\ ~figma_nodes[i].has_parent)
              => \A k \in DOMAIN root_nodes : ~figma_nodes[root_nodes[k]].has_parent

\* C14: when the root fallback designates a root, a warning is recorded on the
\* structure: the designated root's warnings list is non-empty after
\* convert_to_angular_nodes returns.
C14_FallbackWarningRecorded ==
    (pc = "built" /\ FallbackApplied) =>
        \A k \in DOMAIN root_nodes : nodes[root_nodes[k]].warnings # <<>>

-----------------------------------------------------------------------------
(* Naming properties, checked under SpecNames *)

\* the rules in the claimed order: the keywords of each and the roles it gives
ClaimedRules ==
    <<[words |-> {"button"}, roles |-> {"mat-button"}],
      [words |-> {"card"}, roles |-> {"mat-card"}],
      [words |-> {"input", "textfield"}, roles |-> {"mat-form-field"}],
      [words |-> {"select", "dropdown"}, roles |-> {"mat-select"}],
      [words |-> {"checkbox"}, roles |-> {"mat-checkbox"}],
      [words |-> {"radio"}, roles |-> {"mat-radio"}],
      [words |-> {"tab"}, roles |-> {"mat-tab-group"}],
      [words |-> {"dialog", "modal"}, roles |-> {"mat-dialog"}],
      [words |-> {"menu"}, roles |-> {"mat-menu"}],
      [words |-> {"toolbar"}, roles |-> {"mat-toolbar"}],
      [words |-> {"icon"}, roles |-> {"mat-icon"}],
      [words |-> {"chip", "tag"}, roles |-> {"mat-chip"}],
      [words |-> {"progress"}, roles |-> {"mat-progress-bar", "mat-progress-spinner"}]>>

\* the words of the raw name of record i, lowered
LoweredName(i) == {Lower(figma_nodes[i].name[j]) : j \in DOMAIN figma_nodes[i].name}

\* rule k applies to record i: one of its keywords is in the name (the tab rule
\* on frames only; the button rule also on a name that ends in btn)
ClaimedMatch(k, i) ==
    /\ \/ ClaimedRules[k].words \cap LoweredName(i) # {}
       \/ /\ k = 1
          /\ figma_nodes[i].name # <<>>
          /\ Lower(figma_nodes[i].name[Len(figma_nodes[i].name)]) = "btn"
    /\ "tab" \in ClaimedRules[k].words => figma_nodes[i].type = "FRAME"

\* C15: the component role is that of the first rule, in the order button, card,
\* input/textfield, select/dropdown, checkbox, radio, tab (frames only),
\* dialog/modal, menu, toolbar, icon, chip/tag, progress, that matches the name:
\* a name with keywords of several rules gets the role of the earliest one, and
\* a matching name rule wins over the font-metric rules of text nodes.
C15_FirstMatchingRuleDecides ==
    Built =>
        \A i \in DOMAIN nodes : \A k \in DOMAIN ClaimedRules :
            (ClaimedMatch(k, i) /\ \A e \in 1..(k - 1) : ~ClaimedMatch(e, i))
                => nodes[i].component_type \in ClaimedRules[k].roles

\* a text node with heading-size font whose name has the button and the card
\* keyword is a button
C15_Witness ==
    /\ Built
    /\ \E i \in DOMAIN nodes :
          /\ {"button", "card"} \subseteq LoweredName(i)
          /\ figma_nodes[i].type = "TEXT" /\ figma_nodes[i].has_style
          /\ figma_nodes[i].fontSize > 24
          /\ nodes[i].component_type = "mat-button"

\* C16: name sanitisation is idempotent, and its result is never empty, starts
\* with a letter and holds only lowercase letters, digits, underscore and hyphen.
C16_CleanNameIdempotent ==
    Built =>
        \A i \in DOMAIN nodes :
            /\ _clean_name(nodes[i].name) = nodes[i].name
            /\ nodes[i].name # <<>>
            /\ nodes[i].name[1] \in LowerWords
            /\ \A j \in DOMAIN nodes[i].name : nodes[i].name[j] \in LowerWords \cup {"7", "_", "-"}

\* a name of a digit, blanks and a removed character got the prefix
C16_Witness ==
    /\ Built
    /\ \E i \in DOMAIN nodes :
          /\ figma_nodes[i].name = <<"7", " ", "!">>
          /\ nodes[i].name = <<"el", "-", "7", "-">>

-----------------------------------------------------------------------------
(* Frame of the analysis, checked under SpecLayout *)

\* the fields of a node that only its creation writes
CreationFields(node) ==
    [id |-> node.id, name |-> node.name, type |-> node.type,
     component_type |-> node.component_type, x |-> node.position.x,
     y |-> node.position.y, size |-> node.size, children |-> node.children,
     parent |-> node.parent, is_container |-> node.is_container,
     warnings |-> node.warnings]

AtCreation == convert_to_angular_nodes(figma_nodes).nodes

\* C17: analyze_layout changes only the layout fields (layout, flex_props,
\* grid_props) and the position mode of an analysed container: for every node
\* the coordinates, the size, the name, the kind, the component role, the
\* children list with its order and the parent reference are after the
\* analysis what they were at creation, and a node whose position mode
\* differs is a container that has children.
C17_AnalysisKeepsCreationFields ==
    Analysed =>
        LET created == AtCreation
        IN  /\ DOMAIN nodes = DOMAIN created
            /\ \A n \in DOMAIN nodes :
                  /\ CreationFields(nodes[n]) = CreationFields(created[n])
                  /\ nodes[n].position.position # created[n].position.position
                        => nodes[n].is_container /\ nodes[n].children # <<>>

\* an absolute container that the analysis forced relative, its box untouched
C17_Witness ==
    /\ Analysed
    /\ \E n \in DOMAIN nodes :
          /\ nodes[n].position.position # AtCreation[n].position.position
          /\ nodes[n].size.width = 100

\* C18: a node's position mode at creation is absolute only when its constraint
\* flags indicate independent positioning on both the horizontal and the
\* vertical axis; with the flag on one axis only it is relative.
C18_AbsoluteOnlyOnBothAxes ==
    pc = "built" =>
        \A n \in DOMAIN nodes :
            nodes[n].position.position = "absolute"
                => /\ figma_nodes[n].horizontal = "LEFT_RIGHT"
                   /\ figma_nodes[n].vertical = "TOP_BOTTOM"

-----------------------------------------------------------------------------
(* Termination, checked under SpecBuild *)

\* C19: for every record list, convert_to_angular_nodes followed by
\* analyze_layout on the returned roots returns normally with the recursion
\* bounded by the number of nodes (the outermost call and one call per node
\* of a chain), also when the parent_id links form a cycle or a record names
\* its own id as parent_id.
C19_RecursionBoundedByNodes ==
    Built => NestingDepth(nodes, root_nodes, 1) <= Cardinality(DOMAIN nodes) + 1

\* the four tests of the cross-axis alignment, in the order start, end, center,
\* space-between, on children with numeric extents
ClaimedAlignment(children, axis) ==
    LET n == Len(children)
        near == [i \in 1..n |-> children[i].position[axis]]
        far == [i \in 1..n |-> children[i].position[axis] + children[i].size[Extent(axis)]]
        mid2 == [i \in 1..n |-> 2 * children[i].position[axis] + children[i].size[Extent(axis)]]
    IN  IF \A i \in 1..n : \A j \in 1..n : near[i] - near[j] < EdgeTolerance
        THEN "flex-start"
        ELSE IF \A i \in 1..n : \A j \in 1..n : far[j] - far[i] < EdgeTolerance
        THEN "flex-end"
        ELSE IF \A i \in 1..n : Abs(n * mid2[i] - SumSeq(mid2)) < 2 * CenterTolerance * n
        THEN "center"
        ELSE IF n > 2 /\ \E i, j \in 1..n : near[i] # near[j]
        THEN "space-between"
        ELSE ""

\* every child has a numeric width and height, and the descent from the roots
\* stays within the recursion limit: the classification of the roots runs to its end
RunsToEnd(children) ==
    /\ NumericExtents(children, "x")
    /\ NumericExtents(children, "y")
    /\ ~Overflows(nodes, root_nodes, 1)

\* the tests that decide the claimed alignment can be evaluated: the start test
\* needs only the coordinates, the later ones the extents too
TestsDefined(children, axis) ==
    NumericExtents(children, axis) \/ ClaimedAlignment(children, axis) = "flex-start"

\* C20: the cross-axis alignment of a container classified row (column) is the
\* first satisfied test of the order start, end, center, space-between on the
\* children's y (x): flex-start when every y is within 5 of the minimum, else
\* flex-end when every far edge y + height is within 5 of the maximum, else center
\* when every centre is within 10 of the mean, else space-between with more than 2
\* children and more than one distinct y, else no align-items; children passing
\* both the start and the end test get flex-start.
C20_AlignmentIsFirstSatisfiedTest ==
    Analysed =>
        \A n \in RootContainers :
            LET node == nodes[n]
                children == Kids(nodes, n)
            IN  /\ (ClassifiedRow(node) /\ TestsDefined(children, "y")) =>
                      node.flex_props.align_items = ClaimedAlignment(children, "y")
                /\ (ClassifiedColumn(node) /\ TestsDefined(children, "x")) =>
                      node.flex_props.align_items = ClaimedAlignment(children, "x")

\* the same order of tests, on the containers whose classification ran to its end
AlignmentOrderWhenRunsToEnd ==
    Analysed =>
        \A n \in RootContainers :
            LET node == nodes[n]
                children == Kids(nodes, n)
            IN  RunsToEnd(children) =>
                    /\ ClassifiedRow(node) =>
                          node.flex_props.align_items = ClaimedAlignment(children, "y")
                    /\ ClassifiedColumn(node) =>
                          node.flex_props.align_items = ClaimedAlignment(children, "x")

\* a row whose children pass both the start and the end test on y, recorded flex-start
BothEndsAlignedRow ==
    /\ Analysed
    /\ \E n \in RootContainers :
          LET children == Kids(nodes, n)
          IN  /\ ClassifiedRow(nodes[n])
              /\ RunsToEnd(children)
              /\ \E i, j \in DOMAIN children :
                    children[i].position.y # children[j].position.y
              /\ \A i, j \in DOMAIN children :
                    /\ children[i].position.y - children[j].position.y < EdgeTolerance
                    /\ FarEdges(children, "y")[j] - FarEdges(children, "y")[i] < EdgeTolerance
              /\ nodes[n].flex_props.align_items = "flex-start"

-----------------------------------------------------------------------------
(* Tolerances of the alignment tests *)

Within(d, tolerance) == d <= tolerance

StrictlyWithin(d, tolerance) == d < tolerance

\* the alignment the four tests give when `Close` decides what "within" means
ToleranceAlignment(children, axis, Close(_, _)) ==
    LET n == Len(children)
        near == [i \in 1..n |-> children[i].position[axis]]
        far == [i \in 1..n |-> children[i].position[axis] + children[i].size[Extent(axis)]]
        mid2 == [i \in 1..n |-> 2 * children[i].position[axis] + children[i].size[Extent(axis)]]
    IN  IF \A i \in 1..n : \A j \in 1..n : Close(near[i] - near[j], EdgeTolerance)
        THEN "flex-start"
        ELSE IF \A i \in 1..n : \A j \in 1..n : Close(far[j] - far[i], EdgeTolerance)
        THEN "flex-end"
        ELSE IF \A i \in 1..n : Close(Abs(n * mid2[i] - SumSeq(mid2)), 2 * CenterTolerance * n)
        THEN "center"
        ELSE IF n > 2 /\ \E i, j \in 1..n : near[i] # near[j]
        THEN "space-between"
        ELSE ""

\* C21 (as amended): the alignment tests use the tolerances 5 (start, end) and 10
\* (centre) strictly: a recorded align-items is the outcome of the tests in which
\* a child is start-aligned (end-aligned) when its coordinate (far edge) is less
\* than 5 from the minimum (maximum) and centred when its centre is less than 10
\* from the mean; a distance of exactly 5 or exactly 10 fails the test, unlike the
\* row and column predicates, which accept a deviation of exactly 5.
C21_AlignmentTolerancesStrict ==
    Analysed =>
        \A n \in RootContainers :
            LET node == nodes[n]
                children == Kids(nodes, n)
            IN  /\ (ClassifiedRow(node) /\ node.flex_props.align_items # "") =>
                      node.flex_props.align_items
                          = ToleranceAlignment(children, "y", StrictlyWithin)
                /\ (ClassifiedColumn(node) /\ node.flex_props.align_items # "") =>
                      node.flex_props.align_items
                          = ToleranceAlignment(children, "x", StrictlyWithin)

\* C21 as stated: a distance of exactly 5 (start, end) or 10 (centre) passes the test
C21_AlignmentTolerancesInclusive ==
    Analysed =>
        \A n \in RootContainers :
            LET node == nodes[n]
                children == Kids(nodes, n)
            IN  /\ (ClassifiedRow(node) /\ node.flex_props.align_items # "") =>
                      node.flex_props.align_items = ToleranceAlignment(children, "y", Within)
                /\ (ClassifiedColumn(node) /\ node.flex_props.align_items # "") =>
                      node.flex_props.align_items = ToleranceAlignment(children, "x", Within)

\* a row whose children's y differ by exactly 5, recorded center and not flex-start
C21_Witness ==
    /\ Analysed
    /\ \E n \in RootContainers :
          LET ys == Range(Ys(Kids(nodes, n)))
          IN  /\ ClassifiedRow(nodes[n])
              /\ SetMax(ys) - SetMin(ys) = EdgeTolerance
              /\ nodes[n].flex_props.align_items = "center"

-----------------------------------------------------------------------------
(* Grid gaps *)

\* the positions on `axis` rounded to the nearest 10 that have a larger one after them
LeftBuckets(children, axis) ==
    LET bs == {Round10(children[i].position[axis]) : i \in DOMAIN children}
    IN  {b \in bs : \E c \in bs : c > b}

\* (minimum coordinate in the next bucket) - (maximum far edge in bucket b)
Delta(children, axis, b) ==
    LET keys == [i \in DOMAIN children |-> Round10(children[i].position[axis])]
        next == CHOOSE c \in Range(keys) :
                    c > b /\ \A e \in Range(keys) : e > b => c <= e
        lows == {children[i].position[axis] : i \in {k \in DOMAIN children : keys[k] = next}}
        highs == {children[i].position[axis] + children[i].size[Extent(axis)] :
                      i \in {k \in DOMAIN children : keys[k] = b}}
    IN  (CHOOSE l \in lows : \A m \in lows : l <= m)
        - (CHOOSE h \in highs : \A m \in highs : h >= m)

RECURSIVE DeltaTotal(_, _, _)
DeltaTotal(children, axis, bs) ==
    IF bs = {} THEN 0
    ELSE LET b == CHOOSE c \in bs : TRUE
         IN  Delta(children, axis, b) + DeltaTotal(children, axis, bs \ {b})

\* `gap` is the mean of every delta of `axis`, and that mean is positive
MeanOfDeltas(gap, children, axis) ==
    LET bs == LeftBuckets(children, axis)
        total == DeltaTotal(children, axis, bs)
    IN  /\ total > 0
        /\ gap[2] > 0
        /\ gap[1] * Cardinality(bs) = gap[2] * total

GapRecorded(gap, children, axis) ==
    /\ gap # NoGap => MeanOfDeltas(gap, children, axis)
    /\ (RunsToEnd(children)
          /\ DeltaTotal(children, axis, LeftBuckets(children, axis)) > 0) => gap # NoGap

\* C22: for a container classified grid, a recorded column-gap is the mean, over
\* every pair of adjacent column buckets in ascending order, of (minimum x in the
\* right bucket) - (maximum x + width in the left bucket), the negative deltas
\* included, and a recorded row-gap is the same over the row buckets with y and
\* height; a gap is recorded only when that mean is strictly positive, and it is
\* recorded then whenever the classification ran to its end.
C22_GridGapIsMeanOfDeltas ==
    Analysed =>
        \A n \in RootContainers :
            ClassifiedGrid(nodes[n]) =>
                /\ GapRecorded(nodes[n].grid_props.column_gap, Kids(nodes, n), "x")
                /\ GapRecorded(nodes[n].grid_props.row_gap, Kids(nodes, n), "y")

\* a grid with an overlapping pair of column buckets whose mean delta is still
\* positive and recorded as the column gap
C22_Witness ==
    /\ Analysed
    /\ \E n \in RootContainers :
          LET children == Kids(nodes, n)
          IN  /\ ClassifiedGrid(nodes[n])
              /\ NumericExtents(children, "x")
              /\ \E b \in LeftBuckets(children, "x") : Delta(children, "x", b) < 0
              /\ nodes[n].grid_props.column_gap # NoGap

-----------------------------------------------------------------------------
(* Traversal of analyze_layout *)

\* the classification the children's geometry calls for is the recorded one
ClassifiedAsGeometrySays(node, children) ==
    /\ RowCondition(children) => ClassifiedRow(node)
    /\ (~RowCondition(children) /\ ColumnCondition(children)) => ClassifiedColumn(node)
    /\ (~RowCondition(children) /\ ~ColumnCondition(children) /\ GridCondition(children))
          => ClassifiedGrid(node)

\* the scan for absolute children saw the children's position_mode of creation
ScannedChildrenAsCreated(n) ==
    LET created == AtCreation
    IN  (HasAbsoluteChild(Kids(created, n)) /\ NoProps(nodes[n]))
            => nodes[n].position.position = "relative"

\* C23: analyze_layout classifies every node reachable from the roots that owns
\* at least one child, whatever its kind and whether or not the classification of
\* an ancestor failed, and it classifies a node before its children: the scan of
\* a node for absolute children sees their position_mode as set at creation.
C23_EveryOwnerClassifiedParentFirst ==
    Analysed =>
        \A n \in ReachableFromRoots :
            nodes[n].children # <<>> =>
                /\ ClassifiedAsGeometrySays(nodes[n], Kids(nodes, n))
                /\ ScannedChildrenAsCreated(n)

\* the nodes above n
RECURSIVE Ancestors(_, _)
Ancestors(n, steps) ==
    IF steps = 0 \/ nodes[n].parent = 0 \/ nodes[n].parent = n THEN {}
    ELSE {nodes[n].parent} \cup Ancestors(nodes[n].parent, steps - 1)

\* the same for the nodes of a container kind below ancestors whose own
\* classification ran to its end
OwnersClassifiedBelowCompletedAncestors ==
    Analysed =>
        \A n \in ReachableFromRoots :
            (/\ nodes[n].children # <<>>
             /\ nodes[n].is_container
             /\ RunsToEnd(Kids(nodes, n))
             /\ \A a \in Ancestors(n, Len(figma_nodes)) : RunsToEnd(Kids(nodes, a))) =>
                /\ ClassifiedAsGeometrySays(nodes[n], Kids(nodes, n))
                /\ ScannedChildrenAsCreated(n)

\* an inner frame classified row below an outer frame, both created absolute,
\* the outer one forced relative by the scan that saw the inner one absolute
ParentScannedBeforeChild ==
    /\ Analysed
    /\ \E n \in ReachableFromRoots : \E c \in Range(nodes[n].children) :
          /\ c # n
          /\ nodes[c].children # <<>>
          /\ AtCreation[n].position.position = "absolute"
          /\ AtCreation[c].position.position = "absolute"
          /\ nodes[c].position.position = "relative"
          /\ ~HasAbsoluteChild(Kids(nodes, n))
          /\ nodes[n].position.position = "relative"

-----------------------------------------------------------------------------
(* Order of the children lists *)

\* the children of n follow the order of the records that built them
InDocumentOrder(n) ==
    \A k, l \in DOMAIN nodes[n].children :
        k < l => nodes[n].children[k] <= nodes[n].children[l]

\* C24: after convert_to_angular_nodes the children of every node are in document
\* order: of two children of one parent, the one whose record comes earlier in the
\* input list comes earlier in the children list; and the analysis leaves every
\* children list as the conversion built it.
C24_ChildrenInDocumentOrder ==
    Built =>
        LET created == AtCreation
        IN  \A n \in DOMAIN nodes :
                /\ InDocumentOrder(n)
                /\ nodes[n].children = created[n].children

\* no id occurs in two records of the input
UniqueIds ==
    \A i, j \in DOMAIN figma_nodes :
        (i # j /\ IsValid(figma_nodes[i]) /\ IsValid(figma_nodes[j]))
            => figma_nodes[i].id # figma_nodes[j].id

\* the same on the inputs in which no id is repeated
DocumentOrderOfUniqueIds == UniqueIds => C24_ChildrenInDocumentOrder

\* a parent with two children of different records, analysed
TwoChildrenInOrder ==
    /\ Analysed
    /\ UniqueIds
    /\ \E n \in DOMAIN nodes : \E k, l \in DOMAIN nodes[n].children :
          nodes[n].children[k] < nodes[n].children[l]

-----------------------------------------------------------------------------
(* Row and column predicates *)

\* the classification with the column predicate tried before the row predicate
ColumnBeforeRow(node, children) ==
    IF _children_aligned_vertically(children) THEN FlowBranch(node, children, "y", "none")
    ELSE IF _children_aligned_horizontally(children)
    THEN FlowBranch(node, children, "x", "none")
    ELSE IF _appears_to_be_grid(children) THEN GridBranch(node, children, "none")
    ELSE Unclassified(node)

\* C25: the row predicate and the column predicate are mutually exclusive: no
\* children list satisfies both (a row bounds the y spread by 10, a column needs
\* a y spread above 20), so trying the column predicate first gives the same
\* classification as the row-before-column order of the code.
C25_RowAndColumnExclusive ==
    Built =>
        \A n \in DOMAIN nodes :
            LET children == Kids(nodes, n)
            IN  /\ ~(_children_aligned_horizontally(children)
                     /\ _children_aligned_vertically(children))
                /\ _children_aligned_horizontally(children) => Spread(Ys(children)) <= 10
                /\ _children_aligned_vertically(children) => Spread(Ys(children)) > 20
                /\ children # <<>> =>
                      ColumnBeforeRow(nodes[n], children) = Classify(nodes[n], children, "none")

\* a row whose children's y spread is 10, the largest a row can have
C25_Witness ==
    /\ Analysed
    /\ \E n \in RootContainers :
          /\ _children_aligned_horizontally(Kids(nodes, n))
          /\ Spread(Ys(Kids(nodes, n))) = 10
          /\ ClassifiedRow(nodes[n])

-----------------------------------------------------------------------------
(* Translation of the children *)

Offsets == {<<5, 0>>, <<0, 5>>, <<15, 15>>}

\* every record that has a parent moved by `offset`
Translated(recs, offset) ==
    [i \in DOMAIN recs |->
        IF recs[i].dict /\ recs[i].has_parent /\ recs[i].has_bbox
        THEN [recs[i] EXCEPT !.x = @ + offset[1], !.y = @ + offset[2]]
        ELSE recs[i]]

\* every child record carries coordinates that can be translated
ChildrenHaveBoxes ==
    \A i \in DOMAIN figma_nodes :
        (figma_nodes[i].dict /\ figma_nodes[i].has_parent) => figma_nodes[i].has_bbox

\* the node lists the conversion and one analysis of `recs` can end with
Outcomes(recs) ==
    LET b == convert_to_angular_nodes(recs)
    IN  {analyze_layout(b.nodes, b.roots, 1, cut).nodes : cut \in Interruptions(b.nodes, b.roots)}

Classification(node) ==
    [type |-> node.layout.type, direction |-> node.layout.direction,
     spacing |-> node.layout.spacing, flex_props |-> node.flex_props,
     grid_props |-> node.grid_props]

\* C26 (as amended): when all children of a container are translated by the same
\* offset, the classification (layout type, direction, gap, align-items) is
\* unchanged unless the container is classified grid before or after the
\* translation: the row and column predicates, the gap and the alignment depend on
\* relative geometry only, while grid detection, the grid column and row counts
\* and the grid gaps depend on the absolute coordinates.
C26_FlowUnchangedByTranslation ==
    (Analysed /\ ChildrenHaveBoxes) =>
        \A offset \in Offsets :
            \E moved \in Outcomes(Translated(figma_nodes, offset)) :
                \A n \in DOMAIN nodes :
                    \/ ClassifiedGrid(nodes[n])
                    \/ ClassifiedGrid(moved[n])
                    \/ Classification(moved[n]) = Classification(nodes[n])

\* C26 as stated: the classification, grid included, is unchanged by a translation
C26_UnchangedByTranslation ==
    (Analysed /\ ChildrenHaveBoxes) =>
        \A offset \in Offsets :
            \E moved \in Outcomes(Translated(figma_nodes, offset)) :
                \A n \in DOMAIN nodes :
                    Classification(moved[n]) = Classification(nodes[n])

\* a row with a gap and an alignment, classified the same after its children
\* were moved by (15, 15)
C26_Witness ==
    /\ Analysed
    /\ ChildrenHaveBoxes
    /\ \E n \in RootContainers :
          /\ ClassifiedRow(nodes[n])
          /\ nodes[n].flex_props.gap # NoGap
          /\ nodes[n].flex_props.align_items # ""
          /\ \E moved \in Outcomes(Translated(figma_nodes, <<15, 15>>)) :
                /\ Classification(moved[n]) = Classification(nodes[n])
                /\ \A c \in Range(nodes[n].children) :
                      moved[c].position.x = nodes[c].position.x + 15

\* ---------------------------------------------------------------------------
\* C27: order of the children list

\* other orders of the children list of one container: two children exchanged,
\* or the list rotated. Every permutation is a product of exchanges, and up to
\* three children these are all the permutations
Exchanged(kids, i, j) ==
    [k \in DOMAIN kids |-> IF k = i THEN kids[j] ELSE IF k = j THEN kids[i] ELSE kids[k]]

Rotated(kids, r) ==
    [k \in DOMAIN kids |-> kids[((k - 1 + r) % Len(kids)) + 1]]

Reorderings(kids) ==
    {Exchanged(kids, i, j) : i, j \in DOMAIN kids} \cup {Rotated(kids, r) : r \in DOMAIN kids}

\* the classification _analyze_node_layout gives node n when its children are
\* listed as kids
ClassifiedWith(ns, n, kids) ==
    Classification(
        _analyze_node_layout([ns EXCEPT ![n].children = kids], n, "none").nodes[n])

\* no two children share the coordinate their flow sorts them by
SortKeysDistinct(children) ==
    LET axis == IF _children_aligned_horizontally(children) THEN "x" ELSE "y"
    IN  (_children_aligned_horizontally(children) \/ _children_aligned_vertically(children)) =>
            \A i, j \in DOMAIN children :
                i # j => children[i].position[axis] # children[j].position[axis]

\* C27 as amended: a container whose children have pairwise distinct
\* coordinates along the axis of the flow they form (x for a row, y for a
\* column) gets the same layout type, direction, spacing, flex and grid
\* properties whatever the order of its children list
C27_OrderIndependentOnDistinctKeys ==
    (pc = "built") =>
        \A n \in RootContainers :
            SortKeysDistinct(Kids(nodes, n)) =>
                LET listed == ClassifiedWith(nodes, n, nodes[n].children)
                IN  \A kids \in Reorderings(nodes[n].children) :
                        ClassifiedWith(nodes, n, kids) = listed

\* C27 as stated: every container gets the same classification whatever the
\* order of its children list, also when several children share an x or a y
C27_OrderIndependent ==
    (pc = "built") =>
        \A n \in RootContainers :
            LET listed == ClassifiedWith(nodes, n, nodes[n].children)
            IN  \A kids \in Reorderings(nodes[n].children) :
                    ClassifiedWith(nodes, n, kids) = listed

\* an analysed row of three children listed out of their x order, with a gap
\* recorded, which every other order of the list classifies the same
C27_Witness ==
    /\ Analysed
    /\ \E n \in RootContainers :
          /\ ClassifiedRow(nodes[n])
          /\ nodes[n].flex_props.gap # NoGap
          /\ Len(nodes[n].children) >= 3
          /\ SortKeysDistinct(Kids(nodes, n))
          /\ SortedBy(Kids(nodes, n), "x") # Kids(nodes, n)
          /\ LET created == AtCreation
             IN  \A kids \in Reorderings(nodes[n].children) :
                     ClassifiedWith(created, n, kids) = Classification(nodes[n])

\* ---------------------------------------------------------------------------
\* C28: a second run of analyze_layout

\* the nodes after one more analyze_layout(root_nodes), interrupted at cut if
\* the run hits the recursion limit
Rerun(ns, cut) == analyze_layout(ns, root_nodes, 1, cut).nodes

\* C28: analyze_layout is idempotent: a second run on the analysed tree
\* changes no field of any node. Both runs are made by the same interpreter,
\* so a run that hits the recursion limit is interrupted at the same point
\* in both
C28_AnalyzeLayoutIdempotent ==
    (pc = "built") =>
        \A cut \in Interruptions(nodes, root_nodes) :
            LET once == Rerun(nodes, cut)
            IN  Rerun(once, cut) = once

\* the same on the steps of the pipeline: on a tree without a cycle a repeated
\* Analyze step leaves every node as it is
C28_RepeatedAnalyzeStutters ==
    [][(pc = "analyzed" /\ ~Overflows(nodes, root_nodes, 1)) => nodes' = nodes]_vars

\* an analysed tree in which the first run forced a child from absolute to
\* relative, and which one more run leaves as it is
C28_Witness ==
    /\ Analysed
    /\ LET created == AtCreation
       IN  \E c \in DOMAIN nodes :
               /\ nodes[c].parent # 0
               /\ created[c].position.position = "absolute"
               /\ nodes[c].position.position = "relative"
    /\ \A cut \in Interruptions(nodes, root_nodes) : Rerun(nodes, cut) = nodes

\* ---------------------------------------------------------------------------
\* C29: a classification that fails part-way

\* the classification of node n raises before it reaches its end
ClassificationFails(ns, n) == _analyze_node_layout(ns, n, "none").raised

\* C29: classification of one container is all-or-nothing: a container whose
\* classification fails part-way keeps its layout type, direction, spacing,
\* flex_props, grid_props and position mode exactly as they were created
C29_FailedClassificationLeavesNoTrace ==
    Analysed =>
        LET created == AtCreation
        IN  \A n \in RootContainers :
                ClassificationFails(created, n) =>
                    /\ Classification(nodes[n]) = Classification(created[n])
                    /\ nodes[n].position = created[n].position

\* what the code does instead: the fields written before the failure stay, so
\* the container is left with the flow it matched and without the properties
\* that come after the failing step
FailedClassificationKeepsEarlierWrites ==
    Analysed =>
        LET created == AtCreation
        IN  \A n \in RootContainers :
                (ClassificationFails(created, n) /\ ~Overflows(nodes, root_nodes, 1)) =>
                    /\ nodes[n] = _analyze_node_layout(created, n, "none").nodes[n]
                    /\ nodes[n].position = created[n].position
                    /\ \/ ClassifiedRow(nodes[n]) \/ ClassifiedColumn(nodes[n])
                       \/ ClassifiedGrid(nodes[n])

\* a row whose gap computation failed on a child without a bounding box
PartlyClassifiedRow ==
    /\ Analysed
    /\ \E n \in RootContainers :
          /\ ClassificationFails(AtCreation, n)
          /\ ClassifiedRow(nodes[n])
          /\ nodes[n].flex_props.gap = NoGap
          /\ nodes[n].flex_props.align_items = ""

\* ---------------------------------------------------------------------------
\* C30: the record list of the pipeline

Flattened == pc # "document"

\* how many records of the list carry the id
RecordsOf(recs, id) == Cardinality({i \in DOMAIN recs : recs[i].id = id})

\* C30: every node of the document yields at most one flat record, so the
\* list handed to convert_to_angular_nodes contains no id twice, and the record
\* of a node nested in another node names its parent
C30_NoIdTwice ==
    Flattened =>
        /\ \A id \in DOMAIN document.types : RecordsOf(figma_nodes, id) <= 1
        /\ \A i \in DOMAIN figma_nodes :
              document.parents[figma_nodes[i].id] # 0 =>
                  /\ figma_nodes[i].has_parent
                  /\ figma_nodes[i].parent_id = document.parents[figma_nodes[i].id]

\* the document nodes from which node i hangs, itself included
RECURSIVE Enclosing(_, _)
Enclosing(doc, i) == IF i = 0 THEN {} ELSE {i} \cup Enclosing(doc, doc.parents[i])

\* what the code does instead: a list that was not cut short holds one record
\* of a node for every extracted node of a FlattenRoots type that encloses it
OneRecordPerEnclosingRoot ==
    (Flattened /\ Len(figma_nodes) = Len(flatten_figma_tree(document, extract_nodes(document)))) =>
        \A id \in DOMAIN document.types :
            RecordsOf(figma_nodes, id) =
                Cardinality({a \in Enclosing(document, id) :
                                /\ document.types[a] \in FlattenRoots
                                /\ a \in Range(extract_nodes(document))})

\* a frame nested in a canvas, emitted once under the canvas and once more
\* as a parent-less root
FrameEmittedTwice ==
    /\ Flattened
    /\ \E i, j \in DOMAIN figma_nodes :
          /\ i < j
          /\ figma_nodes[i].id = figma_nodes[j].id
          /\ figma_nodes[i].type = "FRAME"
          /\ figma_nodes[i].has_parent
          /\ ~figma_nodes[j].has_parent

====
